---- MODULE Spec2Model ----
(***************************************************************************)
(* A model of pyfume/simpfulfier.py: the SimpfulConverter object, which    *)
(* turns the description of a fuzzy model into the text of a Simpful       *)
(* program and optionally executes that text.                              *)
(*                                                                         *)
(* Text is modelled line by line.  Every line the code formats is a record *)
(* whose fields are the values substituted into the format string; an      *)
(* element of _source_code is the sequence of lines its string splits      *)
(* into at "\n", so that "\n".join(_source_code) is the concatenation of   *)
(* the elements.  Indices of the code are 0-based and kept 0-based here;   *)
(* sequences are 1-based, so list[j] of the code is list[j + 1].           *)
(***************************************************************************)
EXTENDS Integers, Sequences, FiniteSets, TLC

VARIABLES
    input_variables,      \* self._input_variables
    consequents_matrix,   \* self._consequents_matrix
    clusters,             \* self._clusters
    fuzzy_sets,           \* self._fuzzy_sets
    model_order,          \* self._model_order
    fuzzy_sets_to_drop,   \* self._fuzzy_sets_to_drop
    extreme_values,       \* self._extreme_values
    verbose,              \* self.verbose
    source_code,          \* self._source_code
    fuzzyreasoner,        \* self._fuzzyreasoner
    alive,                \* the constructor returned an object
    module_globals,       \* globals() of the module: symbol -> evaluation that bound it
    exec_context,         \* the namespace the latest exec() started from
    file_content,         \* the text held by the file at the path given to save_code
    outcome,              \* the latest call: operation, exception raised, text returned
    n_instances,          \* objects constructed so far
    n_generations         \* generate_code calls on the current object

self_vars == <<input_variables, consequents_matrix, clusters, fuzzy_sets, model_order,
               fuzzy_sets_to_drop, extreme_values, verbose, source_code, fuzzyreasoner,
               alive>>
vars == <<self_vars, module_globals, exec_context, file_content, outcome, n_instances,
          n_generations>>

----------------------------------------------------------------------------
(* Bounds of the model. *)
MaxVars == 2
MaxRules == 2
MaxDrops == 2
MaxGens == 2
MaxInstances == 2

----------------------------------------------------------------------------
(* Python values. *)
None == [tag |-> "None"]
IsNone(x) == x.tag = "None"
List(items) == [tag |-> "list", items |-> items]
Dict(map) == [tag |-> "dict", map |-> map]
NoObject == [tag |-> "unset"]
NoText == <<>>

RECURSIVE Join(_)
(* "\n".join(elements): the lines of the elements, in order. *)
Join(elements) ==
    IF elements = <<>> THEN <<>> ELSE Head(elements) \o Join(Tail(elements))

Last(s) == s[Len(s)]
Front(s) == SubSeq(s, 1, Len(s) - 1)
Range(s) == {s[k] : k \in DOMAIN s}
Count(s, kind) == Cardinality({k \in DOMAIN s : s[k].kind = kind})
OfKind(s, kind) == SelectSeq(s, LAMBDA l : l.kind = kind)

----------------------------------------------------------------------------
(* The lines the code formats. *)
BlankLine == [kind |-> "blank"]
WarningLine == [kind |-> "warning"]
ImportLine == [kind |-> "import"]
InitLine(operators) == [kind |-> "init", operators |-> operators]
RuleLine(i, rule_text) == [kind |-> "rule", n |-> i, text |-> rule_text]
AddRulesLine(names) == [kind |-> "add_rules", rules |-> names]
OutputFunctionLine(i, expr) == [kind |-> "set_output_function", fun |-> i, expr |-> expr]
CrispOutputLine(i, row) == [kind |-> "set_crisp_output_value", fun |-> i, value |-> row]
FuzzySetLine(commented, n, mf, params, term) ==
    [kind |-> "fuzzy_set", commented |-> commented, n |-> n, mf |-> mf,
     params |-> params, term |-> term]
LinguisticVariableLine(var, members, universe) ==
    [kind |-> "linguistic_variable", var |-> var, members |-> members,
     universe_of_discourse |-> universe]
AddLinguisticVariableLine(var) == [kind |-> "add_linguistic_variable", var |-> var]
TrailerLine == [kind |-> "trailer"]

(* The keyword argument universe_of_discourse of a LinguisticVariable line. *)
NoArgument == [tag |-> "absent"]
Argument(value) == [tag |-> "argument", value |-> value]

----------------------------------------------------------------------------
(* Exceptions. *)
NoException == "none"
AssertionError == "AssertionError"
IndexError == "IndexError"
NameError == "NameError"
ModelOrderNotSupported == "Exception: Model order not supported"
FuzzySetTypeNotSupported == "Exception: Fuzzy set type not supported"

----------------------------------------------------------------------------
(* _create_antecedents: for rule i, one piece (var IS cluster<k>) per variable;  *)
(* k is i + 1 unless (j, i) is a key of the drop-set, and then the entry's value *)
(* plus one.                                                                     *)
AntecedentValue(j, i) ==
    IF <<j, i>> \in DOMAIN fuzzy_sets_to_drop
    THEN fuzzy_sets_to_drop[<<j, i>>] + 1
    ELSE i + 1

create_antecedents ==
    [r \in 1..clusters |->
        [v \in 1..Len(input_variables) |->
            [var |-> input_variables[v], cluster |-> AntecedentValue(v - 1, r - 1)]]]

(* create_rules naming the consequents fun0..fun<R-1>. *)
create_rules_from_zero ==
    LET A == create_antecedents
    IN  [r \in 1..clusters |-> [antecedent |-> A[r], consequent |-> r - 1]]

(* create_rules: "IF <antecedent> THEN (OUTPUT IS fun<i+1>)", zip(A, B). *)
create_rules ==
    LET A == create_antecedents
        B == [r \in 1..clusters |-> r]
    IN  [r \in 1..clusters |-> [antecedent |-> A[r], consequent |-> B[r]]]

(* _create_consequents: per row, the terms zip(names, row[:-1]) joined by "+",   *)
(* then "+" row[-1]; row[-1] of an empty row raises IndexError.                  *)
Min(a, b) == IF a < b THEN a ELSE b

ConsequentOfRow(row) ==
    [terms |-> [k \in 1..Min(Len(input_variables), Len(row) - 1) |->
                    [coefficient |-> row[k], name |-> input_variables[k]]],
     bias |-> Last(row)]

create_consequents ==
    IF \E r \in DOMAIN consequents_matrix : Len(consequents_matrix[r]) = 0
    THEN [raised |-> IndexError, result |-> <<>>]
    ELSE [raised |-> NoException,
          result |-> [r \in DOMAIN consequents_matrix |->
                         ConsequentOfRow(consequents_matrix[r])]]

----------------------------------------------------------------------------
(* _create_fuzzy_sets. *)
SupportedTypes == {"gauss", "gauss2", "sigmoid", "invgauss"}

MembershipFunction(fstype) ==
    CASE fstype = "gauss" -> "Gaussian_MF"
      [] fstype = "gauss2" -> "DoubleGaussian_MF"
      [] fstype = "sigmoid" -> "Sigmoid_MF"
      [] fstype = "invgauss" -> "InvGaussian_MF"

ParamsUsed(fstype) == IF fstype = "gauss2" THEN 4 ELSE 2

(* The drop-set looked up with the key's components swapped. *)
DroppedSwapped(num_var, cluster) == <<cluster, num_var>> \in DOMAIN fuzzy_sets_to_drop

(* Whether the pair's declaration is commented out and left out of the members. *)
Dropped(num_var, cluster) == <<num_var, cluster>> \in DOMAIN fuzzy_sets_to_drop

(* A counter that commented-out declarations do not advance. *)
FuzzySetNumberSkipping(j) ==
    j + 1 - Cardinality({p \in DOMAIN fuzzy_sets_to_drop : p[1] * clusters + p[2] < j})

(* The number in the identifier FS_<n> of the declaration reached with counter j. *)
FuzzySetNumber(j) == j + 1

(* The argument taken from the first variable's entry for every variable. *)
UniverseArgumentOfFirst(num_var) ==
    IF IsNone(extreme_values)
    THEN NoArgument
    ELSE Argument(extreme_values.items[1])

(* The universe_of_discourse argument of the declaration of variable num_var. *)
UniverseArgument(num_var) ==
    IF IsNone(extreme_values)
    THEN NoArgument
    ELSE Argument(extreme_values.items[num_var + 1])

RECURSIVE create_fuzzy_sets_from(_, _, _, _, _)
(* The two nested loops, from the iteration (num_var, cluster) on, with the      *)
(* running counter j, the text so far and the members so far.                    *)
create_fuzzy_sets_from(num_var, cluster, j, chunk, subchunk) ==
    IF num_var >= Len(input_variables)
    THEN [raised |-> NoException, chunk |-> chunk]
    ELSE IF cluster >= clusters
    THEN IF ~IsNone(extreme_values) /\ num_var >= Len(extreme_values.items)
         THEN [raised |-> IndexError, chunk |-> chunk]
         ELSE LET var == input_variables[num_var + 1]
              IN  create_fuzzy_sets_from(num_var + 1, 0, j,
                      chunk \o <<LinguisticVariableLine(var, subchunk,
                                                        UniverseArgument(num_var)),
                                 AddLinguisticVariableLine(var),
                                 BlankLine>>,
                      <<>>)
    ELSE IF j >= Len(fuzzy_sets)
    THEN [raised |-> IndexError, chunk |-> chunk]
    ELSE LET fstype == fuzzy_sets[j + 1].fstype
             params == fuzzy_sets[j + 1].params
         IN  IF fstype \notin SupportedTypes
             THEN [raised |-> FuzzySetTypeNotSupported, chunk |-> chunk]
             ELSE IF Len(params) < ParamsUsed(fstype)
             THEN [raised |-> IndexError, chunk |-> chunk]
             ELSE create_fuzzy_sets_from(num_var, cluster + 1, j + 1,
                      Append(chunk,
                             FuzzySetLine(Dropped(num_var, cluster), FuzzySetNumber(j),
                                          MembershipFunction(fstype),
                                          SubSeq(params, 1, ParamsUsed(fstype)),
                                          cluster + 1)),
                      IF Dropped(num_var, cluster)
                      THEN subchunk
                      ELSE Append(subchunk, FuzzySetNumber(j)))

(* A _create_fuzzy_sets that returns what it has when it meets an unknown shape. *)
create_fuzzy_sets_lenient ==
    LET result == create_fuzzy_sets_from(0, 0, 0, <<>>, <<>>)
    IN  IF result.raised = FuzzySetTypeNotSupported
        THEN [raised |-> NoException, chunk |-> result.chunk]
        ELSE result

create_fuzzy_sets == create_fuzzy_sets_from(0, 0, 0, <<>>, <<>>)

----------------------------------------------------------------------------
(* generate_code, as a function of the object: the _source_code it leaves, the   *)
(* exception it raises and the text it returns.                                  *)
RuleBlock ==
    LET rule_texts == create_rules
    IN  [i \in 1..clusters |-> <<RuleLine(i, rule_texts[i])>>]
        \o << <<AddRulesLine([i \in 1..clusters |-> i])>>, <<BlankLine>> >>

OutputBlock ==
    IF model_order = "first"
    THEN LET B == create_consequents
         IN  IF B.raised # NoException
             THEN [raised |-> B.raised, lines |-> <<>>]
             ELSE [raised |-> NoException,
                   lines |-> [i \in 1..clusters |-> <<OutputFunctionLine(i, B.result[i])>>]]
    ELSE IF model_order = "zero"
    THEN [raised |-> NoException,
          lines |-> [i \in 1..clusters |-> <<CrispOutputLine(i, consequents_matrix[i])>>]]
    ELSE [raised |-> ModelOrderNotSupported, lines |-> <<>>]

Generation(document) ==
    LET with_rules == document \o RuleBlock
        outputs == OutputBlock
        with_outputs == with_rules \o outputs.lines \o << <<BlankLine>> >>
        result == create_fuzzy_sets
        complete == with_outputs \o << result.chunk \o <<BlankLine>>, <<TrailerLine>> >>
    IN  IF outputs.raised # NoException
        THEN [source_code |-> with_rules, raised |-> outputs.raised, code |-> NoText]
        ELSE IF result.raised # NoException
        THEN [source_code |-> with_outputs, raised |-> result.raised, code |-> NoText]
        ELSE [source_code |-> complete, raised |-> NoException, code |-> Join(complete)]

(* A generate_code that undoes its appends when it raises. *)
GenerateCodeRollingBack ==
    LET g == Generation(source_code)
    IN  IF g.raised # NoException THEN [g EXCEPT !.source_code = source_code] ELSE g

(* A generate_code that starts every call from the header alone. *)
GenerateCodeFromHeader == Generation(SubSeq(source_code, 1, 3))

(* generate_code appends to the document the object holds. *)
GenerateCode == Generation(source_code)

----------------------------------------------------------------------------
(* exec(code, globals()): the names the statements of the text bind.  A          *)
(* commented-out line binds nothing.                                             *)
Symbol(sym, n, name) == [sym |-> sym, n |-> n, name |-> name]
FS == Symbol("FS", 0, "")

SymbolOfLine(l) ==
    CASE l.kind = "import" -> {Symbol("simpful.*", 0, "")}
      [] l.kind = "init" -> {FS}
      [] l.kind = "rule" -> {Symbol("RULE", l.n, "")}
      [] l.kind = "fuzzy_set" -> IF l.commented THEN {} ELSE {Symbol("FS_", l.n, "")}
      [] l.kind = "linguistic_variable" -> {Symbol("MF_", 0, l.var)}
      [] OTHER -> {}

BoundBy(code) == UNION {SymbolOfLine(code[k]) : k \in DOMAIN code}

(* The namespace after the text ran in namespace ns as evaluation id. *)
Exec(code, ns, id) ==
    [s \in DOMAIN ns \cup BoundBy(code) |-> IF s \in BoundBy(code) THEN id ELSE ns[s]]

(* The namespace handed to exec: the module's globals. *)
ExecNamespace == module_globals

FuzzySystem(built_by) == [tag |-> "FuzzySystem", built_by |-> built_by]
Evaluation(instance, generation) == [instance |-> instance, generation |-> generation]

Outcome(op, raised, code) == [op |-> op, raised |-> raised, code |-> code]

----------------------------------------------------------------------------
(* __init__ *)
Header(operators) ==
    << <<WarningLine>>, <<ImportLine>>, <<BlankLine, InitLine(operators)>> >>

(* The assertion of line 41; consequents_matrix[0] of an empty matrix raises.    *)
ConstructRaises(args) ==
    IF args.model_order = "first"
    THEN IF Len(args.consequents_matrix) = 0
         THEN IndexError
         ELSE IF Len(args.input_variables_names) + 1 # Len(args.consequents_matrix[1])
         THEN AssertionError
         ELSE NoException
    ELSE NoException

Construct(args) ==
    /\ n_instances' = n_instances + 1
    /\ n_generations' = 0
    /\ input_variables' = args.input_variables_names
    /\ consequents_matrix' = args.consequents_matrix
    /\ clusters' = Len(args.consequents_matrix)
    /\ fuzzy_sets' = args.fuzzy_sets
    /\ model_order' = args.model_order
    /\ fuzzy_sets_to_drop' = IF IsNone(args.fuzzy_sets_to_drop)
                             THEN <<>>
                             ELSE args.fuzzy_sets_to_drop.map
    /\ extreme_values' = args.extreme_values
    /\ verbose' = args.verbose
    /\ fuzzyreasoner' = NoObject
    /\ LET raised == ConstructRaises(args)
       IN  /\ alive' = (raised = NoException)
           /\ source_code' = IF raised = NoException THEN Header(args.operators) ELSE <<>>
           /\ outcome' = Outcome("__init__", raised, NoText)
    /\ UNCHANGED <<module_globals, exec_context, file_content>>

----------------------------------------------------------------------------
(* generate_code, save_code, generate_object *)
unchanged_inputs ==
    UNCHANGED <<input_variables, consequents_matrix, clusters, fuzzy_sets, model_order,
                fuzzy_sets_to_drop, extreme_values, verbose, alive, n_instances>>

generate_code ==
    /\ alive
    /\ n_generations < MaxGens
    /\ n_generations' = n_generations + 1
    /\ LET g == GenerateCode
       IN  /\ source_code' = g.source_code
           /\ outcome' = Outcome("generate_code", g.raised, g.code)
    /\ unchanged_inputs
    /\ UNCHANGED <<fuzzyreasoner, module_globals, exec_context, file_content>>

save_code ==
    /\ alive
    /\ n_generations < MaxGens
    /\ n_generations' = n_generations + 1
    /\ LET g == GenerateCode
       IN  /\ source_code' = g.source_code
           /\ outcome' = Outcome("save_code", g.raised, g.code)
           /\ file_content' = IF g.raised = NoException THEN g.code ELSE file_content
    /\ unchanged_inputs
    /\ UNCHANGED <<fuzzyreasoner, module_globals, exec_context>>

generate_object ==
    /\ alive
    /\ n_generations < MaxGens
    /\ n_generations' = n_generations + 1
    /\ LET g == GenerateCode
           id == Evaluation(n_instances, n_generations + 1)
       IN  /\ source_code' = g.source_code
           /\ IF g.raised # NoException
              THEN /\ outcome' = Outcome("generate_object", g.raised, NoText)
                   /\ UNCHANGED <<fuzzyreasoner, module_globals, exec_context>>
              ELSE IF verbose \in {"True", "False"}
              THEN /\ exec_context' = ExecNamespace
                   /\ module_globals' = Exec(g.code, ExecNamespace, id)
                   /\ fuzzyreasoner' = FuzzySystem(module_globals'[FS])
                   /\ outcome' = Outcome("generate_object", NoException, g.code)
              ELSE /\ UNCHANGED <<module_globals, exec_context>>
                   /\ IF FS \in DOMAIN module_globals
                      THEN /\ fuzzyreasoner' = FuzzySystem(module_globals[FS])
                           /\ outcome' = Outcome("generate_object", NoException, g.code)
                      ELSE /\ fuzzyreasoner' = fuzzyreasoner
                           /\ outcome' = Outcome("generate_object", NameError, g.code)
    /\ unchanged_inputs
    /\ UNCHANGED file_content

----------------------------------------------------------------------------
Init ==
    /\ input_variables = <<>>
    /\ consequents_matrix = <<>>
    /\ clusters = 0
    /\ fuzzy_sets = <<>>
    /\ model_order = "first"
    /\ fuzzy_sets_to_drop = <<>>
    /\ extreme_values = None
    /\ verbose = "False"
    /\ source_code = <<>>
    /\ fuzzyreasoner = NoObject
    /\ alive = FALSE
    /\ module_globals = <<>>
    /\ exec_context = <<>>
    /\ file_content = NoText
    /\ outcome = Outcome("none", NoException, NoText)
    /\ n_instances = 0
    /\ n_generations = 0

----------------------------------------------------------------------------
(* The arguments the constructor is called with. *)
Names == <<"pippo", "pluto", "x", "y">>
VariableNames(V) == SubSeq(Names, 1, V)

(* Row r with len entries, all distinct; the matrix whose rows have these lengths. *)
Row(r, len) == [k \in 1..len |-> 10 * r + k]
Matrix(lens) == [r \in DOMAIN lens |-> Row(r, lens[r])]
WellFormedMatrix(V, R) == Matrix([r \in 1..R |-> V + 1])

(* Entry e of the fuzzy-set list: the shape tag and parameters that name e. *)
TypeCycle == <<"gauss", "sigmoid", "gauss2", "invgauss">>
FuzzySetEntry(fstype, e) ==
    [fstype |-> fstype,
     params |-> IF fstype = "gauss2" THEN <<e, 1, e + 1, 2>>
                ELSE IF fstype \in SupportedTypes THEN <<e, 1>>
                ELSE <<e, 1, 2>>]
FuzzySetList(n, unsupported) ==
    [e \in 1..n |-> FuzzySetEntry(IF e \in unsupported THEN "triangle"
                                  ELSE TypeCycle[((e - 1) % Len(TypeCycle)) + 1], e)]

Arguments(names, matrix, sets, order, drop, extremes, operators, verb) ==
    [input_variables_names |-> names, consequents_matrix |-> matrix, fuzzy_sets |-> sets,
     model_order |-> order, fuzzy_sets_to_drop |-> drop, extreme_values |-> extremes,
     operators |-> operators, verbose |-> verb]

Pairs(V, R) == (0..V - 1) \X (0..R - 1)
DropSets(V, R) ==
    {None} \cup
    {Dict(m) : m \in UNION {[D -> 0..R - 1] :
                               D \in {D \in SUBSET Pairs(V, R) : Cardinality(D) <= MaxDrops}}}

(* Constructor calls, by the family of models they build.  Each is one call of   *)
(* __init__ with arguments drawn from the family.                                *)

(* Models of every shape: row lengths right and wrong, every model order. *)
ConstructShape ==
    \E V \in 1..MaxVars :
        \E lens \in UNION {[1..R -> {0, V, V + 1}] : R \in 0..MaxRules},
           order \in {"first", "zero", "second"},
           operators \in {None, List(<<"AND_PRODUCT">>)} :
            Construct(Arguments(VariableNames(V), Matrix(lens),
                                FuzzySetList(V * Len(lens), {}), order, None, None,
                                operators, "False"))

(* Well-formed first-order models with every drop-set of at most MaxDrops        *)
(* entries.                                                                      *)
ConstructDrop ==
    \E V \in 1..MaxVars, R \in 1..MaxRules :
        \E drop \in DropSets(V, R) :
            Construct(Arguments(VariableNames(V), WellFormedMatrix(V, R),
                                FuzzySetList(V * R, {}), "first", drop, None, None, "False"))

(* Models of every order with at most two entries of an unsupported shape, with *)
(* and without a dropped pair.                                                   *)
ConstructType ==
    \E V \in 1..MaxVars, R \in 1..MaxRules :
        \E order \in {"first", "zero", "second"},
           unsupported \in {T \in SUBSET (1..V * R) : Cardinality(T) <= 2},
           drop \in {None} \cup {Dict([p \in {q} |-> 0]) : q \in Pairs(V, R)} :
            Construct(Arguments(VariableNames(V), WellFormedMatrix(V, R),
                                FuzzySetList(V * R, unsupported), order, drop, None, None,
                                "False"))

(* Well-formed models with universe-of-discourse bounds for none, some or all of *)
(* the variables.                                                                *)
Extremes(V) ==
    {None} \cup
    {List(items) : items \in UNION {[1..n -> {None, List(<<0, 1>>)}] : n \in V - 1..V}}
ConstructBounds ==
    \E V \in 1..MaxVars, R \in 1..MaxRules :
        \E extremes \in Extremes(V), order \in {"first", "zero"} :
            Construct(Arguments(VariableNames(V), WellFormedMatrix(V, R),
                                FuzzySetList(V * R, {}), order, None, extremes, None,
                                "False"))

(* Models of different sizes, built one after another in one interpreter. *)
ConstructNamespace ==
    \E V \in 1..MaxVars, R \in 1..MaxRules :
        \E drop \in {None, Dict([p \in {<<0, 0>>} |-> 0])},
           verb \in {"True", "False", "None"} :
            Construct(Arguments(VariableNames(V), WellFormedMatrix(V, R),
                                FuzzySetList(V * R, {}), "first", drop, None, None, verb))

----------------------------------------------------------------------------
Operations == generate_code \/ save_code \/ generate_object

(* One object per interpreter, or up to MaxInstances of them. *)
OneObject == n_instances < 1
SeveralObjects == n_instances < MaxInstances

NextShape == (OneObject /\ ConstructShape) \/ Operations
NextDrop == (OneObject /\ ConstructDrop) \/ Operations
NextType == (OneObject /\ ConstructType) \/ Operations
NextBounds == (OneObject /\ ConstructBounds) \/ Operations
NextNamespace == (SeveralObjects /\ ConstructNamespace) \/ Operations

Spec == Init /\ [][NextShape]_vars
SpecDrop == Init /\ [][NextDrop]_vars
SpecType == Init /\ [][NextType]_vars
SpecBounds == Init /\ [][NextBounds]_vars
SpecNamespace == Init /\ [][NextNamespace]_vars

----------------------------------------------------------------------------
(* What the properties below read off a state. *)
V == Len(input_variables)
R == clusters
GenerationOps == {"generate_code", "save_code", "generate_object"}

(* The latest call ran generate_code and the generation returned its text. *)
Generated == alive /\ outcome.op \in GenerationOps /\ outcome.code # NoText
(* ... and it was the first generation of a fresh object. *)
FirstText == Generated /\ n_generations = 1
Text == outcome.code

RuleLines(t) == OfKind(t, "rule")
FuzzySetLines(t) == OfKind(t, "fuzzy_set")
VariableLines(t) == OfKind(t, "linguistic_variable")
BindingLines(t) ==
    SelectSeq(t, LAMBDA l : l.kind \in {"set_output_function", "set_crisp_output_value"})

(* In a text holding one generation: the declaration of pair (j, i), the         *)
(* LinguisticVariable line of variable j, the clause of rule i for variable j.   *)
DeclarationOf(t, j, i) == FuzzySetLines(t)[j * R + i + 1]
VariableLineOf(t, j) == VariableLines(t)[j + 1]
ClauseOf(t, j, i) == RuleLines(t)[i + 1].text.antecedent[j + 1]

----------------------------------------------------------------------------
(* C1: for a first-order model, the constructor fails with a validation error,   *)
(* and creates no document text, whenever any row of the consequent matrix has   *)
(* a length other than V + 1.                                                    *)
C1_AnyMismatchedRowFailsValidation ==
    (/\ outcome.op = "__init__"
     /\ model_order = "first"
     /\ \E r \in DOMAIN consequents_matrix : Len(consequents_matrix[r]) # V + 1)
    => (outcome.raised = AssertionError /\ ~alive /\ source_code = <<>>)

----------------------------------------------------------------------------
(* C2: in the text of the first generation, the declaration of every pair in the *)
(* drop-set is a comment, its identifier is no member of the variable's          *)
(* LinguisticVariable and the rule's clause names the replacement cluster; the   *)
(* declaration of every other pair is uncommented, is a member, and the rule's   *)
(* clause names the rule's own cluster.                                          *)
C2_DropSetShapesText ==
    FirstText =>
        \A j \in 0..V - 1, i \in 0..R - 1 :
            LET decl == DeclarationOf(Text, j, i)
                variable == VariableLineOf(Text, j)
                members == Range(variable.members)
                clause == ClauseOf(Text, j, i)
            IN  /\ clause.var = input_variables[j + 1]
                /\ variable.var = input_variables[j + 1]
                /\ IF <<j, i>> \in DOMAIN fuzzy_sets_to_drop
                   THEN /\ decl.commented
                        /\ decl.n \notin members
                        /\ clause.cluster = fuzzy_sets_to_drop[<<j, i>>] + 1
                   ELSE /\ ~decl.commented
                        /\ decl.n \in members
                        /\ clause.cluster = i + 1

(* A first text of a model with a dropped pair redirected to another cluster and *)
(* a pair that is kept.                                                          *)
C2_Witness ==
    /\ FirstText
    /\ \E p \in DOMAIN fuzzy_sets_to_drop : fuzzy_sets_to_drop[p] # p[2]
    /\ \E p \in Pairs(V, R) : p \notin DOMAIN fuzzy_sets_to_drop

----------------------------------------------------------------------------
(* C3: the text of the first generation of a model of a supported order holds    *)
(* exactly R rule declarations RULE1..RULER, one add_rules statement listing     *)
(* RULE1..RULER in order, and R output bindings fun1..funR of the kind the model *)
(* order asks for; rule i's consequent is fun<i>.                                *)
C3_RulesAndBindingsMatchRuleCount ==
    (FirstText /\ model_order \in {"first", "zero"}) =>
        LET rules == RuleLines(Text)
            adds == OfKind(Text, "add_rules")
            bindings == BindingLines(Text)
        IN  /\ Len(rules) = R
            /\ \A i \in 1..R : rules[i].n = i /\ rules[i].text.consequent = i
            /\ Len(adds) = 1
            /\ adds[1].rules = [i \in 1..R |-> i]
            /\ Len(bindings) = R
            /\ \A i \in 1..R :
                   /\ bindings[i].fun = i
                   /\ bindings[i].kind = IF model_order = "first"
                                         THEN "set_output_function"
                                         ELSE "set_crisp_output_value"

C3_Witness ==
    /\ FirstText
    /\ model_order = "zero"
    /\ R = MaxRules

----------------------------------------------------------------------------
(* Explicit bounds were supplied for variable j. *)
BoundsSupplied(j) ==
    /\ ~IsNone(extreme_values)
    /\ j + 1 <= Len(extreme_values.items)
    /\ ~IsNone(extreme_values.items[j + 1])

(* C4, as claimed: variable j's LinguisticVariable declaration carries a         *)
(* universe_of_discourse argument if and only if bounds were supplied for        *)
(* variable j.                                                                   *)
C4_ArgumentIffSuppliedForVariable ==
    FirstText =>
        \A j \in 0..V - 1 :
            (VariableLineOf(Text, j).universe_of_discourse # NoArgument) <=> BoundsSupplied(j)

(* C4, amended: the argument is present in every declaration when a list of      *)
(* extreme values was given and in none when it was not; when present, variable  *)
(* j's argument is entry j of the list, whatever that entry is.                  *)
C4_ArgumentIffListGiven ==
    FirstText =>
        \A j \in 0..V - 1 :
            LET argument == VariableLineOf(Text, j).universe_of_discourse
            IN  IF IsNone(extreme_values)
                THEN argument = NoArgument
                ELSE argument = Argument(extreme_values.items[j + 1])

(* A first text of a model with bounds for one variable and none for another. *)
C4_Witness ==
    /\ FirstText
    /\ \E j \in 0..V - 1 : BoundsSupplied(j)
    /\ \E j \in 0..V - 1 : ~BoundsSupplied(j)

----------------------------------------------------------------------------
(* C5: every evaluation starts from a namespace holding no symbol of an earlier  *)
(* document, and the object a translator captures was built by an evaluation of  *)
(* that translator's own document.                                               *)
C5_EvaluationIsIsolated ==
    /\ DOMAIN exec_context = {}
    /\ fuzzyreasoner # NoObject => fuzzyreasoner.built_by.instance = n_instances

----------------------------------------------------------------------------
(* One of the entries the loops reach has a shape tag the code does not know. *)
HasUnsupportedType ==
    \E e \in 1..V * R : e <= Len(fuzzy_sets) /\ fuzzy_sets[e].fstype \notin SupportedTypes

NothingProduced ==
    /\ outcome.raised # NoException
    /\ outcome.code = NoText
    /\ file_content = NoText
    /\ fuzzyreasoner = NoObject
    /\ DOMAIN module_globals = {}

(* C6, as claimed: with an unsupported shape tag among the first V*R entries,    *)
(* every generation raises the unsupported-fuzzy-set-type error, returns no      *)
(* text, writes no file and captures no object.                                  *)
C6_UnsupportedTypeRaisesTypeError ==
    (alive /\ HasUnsupportedType /\ outcome.op \in GenerationOps) =>
        (NothingProduced /\ outcome.raised = FuzzySetTypeNotSupported)

(* C6, amended: ... every generation raises, returns no text, writes no file and *)
(* captures no object, dropped pair or not; the error is the unsupported-fuzzy-  *)
(* set-type error when the model order is supported, and the unsupported-model-  *)
(* order error, raised before the fuzzy sets are reached, when it is not.        *)
C6_UnsupportedTypeProducesNothing ==
    (alive /\ HasUnsupportedType /\ outcome.op \in GenerationOps) =>
        /\ NothingProduced
        /\ outcome.raised = IF model_order \in {"first", "zero"}
                            THEN FuzzySetTypeNotSupported
                            ELSE ModelOrderNotSupported

(* save_code and generate_object on a model whose only unsupported entry is a    *)
(* dropped pair.                                                                 *)
C6_Witness ==
    /\ alive
    /\ outcome.op \in {"save_code", "generate_object"}
    /\ n_generations = 2
    /\ model_order = "first"
    /\ HasUnsupportedType
    /\ \A e \in 1..V * R :
           fuzzy_sets[e].fstype \notin SupportedTypes =>
               \E p \in DOMAIN fuzzy_sets_to_drop : p[1] * R + p[2] + 1 = e

----------------------------------------------------------------------------
(* The document after k generations that each stopped at the model order: the    *)
(* three header elements, then k times RULE1..RULER, add_rules and a blank line. *)
StoppedAtModelOrder(document, k) ==
    /\ Len(document) = 3 + k * (R + 2)
    /\ \A g \in 0..k - 1 :
           LET at == 3 + g * (R + 2)
           IN  /\ \A i \in 1..R :
                      /\ Len(document[at + i]) = 1
                      /\ document[at + i][1].kind = "rule"
                      /\ document[at + i][1].n = i
               /\ document[at + R + 1] = <<AddRulesLine([i \in 1..R |-> i])>>
               /\ document[at + R + 2] = <<BlankLine>>

(* C7: with a model order that is neither 'first' nor 'zero' the constructor     *)
(* succeeds; every generation raises the unsupported-model-order error and       *)
(* leaves in the document the R rule lines, the add_rules line and the blank     *)
(* line it appended, and nothing else.                                           *)
C7_ModelOrderErrorLeavesRuleLines ==
    (n_instances >= 1 /\ model_order \notin {"first", "zero"}) =>
        /\ alive
        /\ outcome.op = "__init__" => outcome.raised = NoException
        /\ outcome.op \in GenerationOps =>
               /\ outcome.raised = ModelOrderNotSupported
               /\ outcome.code = NoText
        /\ StoppedAtModelOrder(source_code, n_generations)

C7_Witness ==
    /\ model_order = "second"
    /\ outcome.raised = ModelOrderNotSupported
    /\ n_generations = 1
    /\ R = MaxRules
    /\ Len(source_code) = 3 + R + 2

----------------------------------------------------------------------------
IsStrictPrefix(a, b) == Len(a) < Len(b) /\ SubSeq(b, 1, Len(a)) = a

(* The text holds the header once and k copies of each block. *)
HoldsCopies(t, k) ==
    /\ Count(t, "warning") = 1
    /\ Count(t, "import") = 1
    /\ Count(t, "init") = 1
    /\ Len(RuleLines(t)) = k * R
    /\ Count(t, "add_rules") = k
    /\ Len(BindingLines(t)) = k * R
    /\ Len(FuzzySetLines(t)) = k * V * R
    /\ Len(VariableLines(t)) = k * V
    /\ Count(t, "add_linguistic_variable") = k * V
    /\ Count(t, "trailer") = k
    /\ Last(t) = TrailerLine

(* C8: the text of the k-th successful generation on one object has the text of  *)
(* the one before as a strict prefix, and holds the header once and k copies of  *)
(* the rule, output-binding and fuzzy-set blocks and of the trailer.             *)
C8_DocumentOnlyGrows ==
    [][(n_generations' = n_generations + 1 /\ outcome'.raised = NoException) =>
           /\ HoldsCopies(outcome'.code, n_generations')
           /\ n_generations >= 1 => IsStrictPrefix(outcome.code, outcome'.code)]_vars

C8_Witness ==
    /\ Generated
    /\ n_generations = MaxGens
    /\ R >= 1
    /\ Len(RuleLines(Text)) = MaxGens * R

----------------------------------------------------------------------------
(* C9, as claimed: every clause (var_j IS cluster<k>) of the first text names a  *)
(* cluster in range whose pair with j is not dropped, so that the term is an     *)
(* uncommented member of variable j's LinguisticVariable.                        *)
C9_ClausesNameExistingSets ==
    FirstText =>
        \A j \in 0..V - 1, i \in 0..R - 1 :
            LET k == ClauseOf(Text, j, i).cluster
            IN  /\ k - 1 \in 0..R - 1
                /\ <<j, k - 1>> \notin DOMAIN fuzzy_sets_to_drop
                /\ \E n \in DOMAIN FuzzySetLines(Text) :
                       LET l == FuzzySetLines(Text)[n]
                       IN  /\ ~l.commented
                           /\ l.term = k
                           /\ l.n \in Range(VariableLineOf(Text, j).members)

----------------------------------------------------------------------------
(* C10: in every generation the declaration of (v, c) is named FS_<v*R+c+1>, is  *)
(* built from entry v*R+c of the fuzzy-set list and carries the term             *)
(* cluster<c+1>, dropped or not; the numbering starts again at 1 in the block    *)
(* each generation appends.                                                      *)
C10_GlobalCounterVariableMajor ==
    Generated =>
        LET declarations == FuzzySetLines(Text)
        IN  /\ Len(declarations) = n_generations * V * R
            /\ \A g \in 0..n_generations - 1, v \in 0..V - 1, c \in 0..R - 1 :
                   LET l == declarations[g * V * R + v * R + c + 1]
                       entry == fuzzy_sets[v * R + c + 1]
                   IN  /\ l.n = v * R + c + 1
                       /\ l.term = c + 1
                       /\ l.mf = MembershipFunction(entry.fstype)
                       /\ l.params = SubSeq(entry.params, 1, ParamsUsed(entry.fstype))
                       /\ l.commented = (<<v, c>> \in DOMAIN fuzzy_sets_to_drop)

(* A second generation on a model of several variables and rules with a dropped  *)
(* pair that is not the last one.                                                *)
C10_Witness ==
    /\ Generated
    /\ n_generations = 2
    /\ V >= 2
    /\ R >= 2
    /\ <<0, 0>> \in DOMAIN fuzzy_sets_to_drop

====
